---- MODULE Spec2Model ----
(***************************************************************************)
(* Model of libloragw/src/loragw_usb.c: the USB/serial transport of the    *)
(* LoRa concentrator HAL.  A session is opened on a tty (lgw_usb_open),    *)
(* register accesses are framed and handed to the MCU relay                *)
(* (mcu_spi_access) by lgw_usb_w / lgw_usb_r / lgw_usb_wb / lgw_usb_rb,    *)
(* and the session is released by lgw_usb_close.                           *)
(*                                                                         *)
(* The OS (malloc/free, open/close, tcgetattr/tcsetattr) and the MCU       *)
(* library (mcu_ping, mcu_gpio_write, mcu_spi_access) are the environment: *)
(* their outcomes are inputs of the actions.                               *)
(***************************************************************************)
EXTENDS Integers, Sequences, FiniteSets, TLC

(* ------------------------------------------------------------------ *)
(* Bounds of the model                                                 *)
(* ------------------------------------------------------------------ *)

\* number of malloc'ed handles over a behaviour (handle addresses 1..MaxAlloc)
MaxAlloc == 2
\* number of register operations in a behaviour of Spec
MaxSessionOps == 1
\* number of register operations in a behaviour of SpecOps
MaxOps == 3
\* largest burst size of the exhaustive small-size range of SpecCodec
MaxBurst == 3

(* ------------------------------------------------------------------ *)
(* Program constants                                                   *)
(* ------------------------------------------------------------------ *)

NULL == 0
LGW_USB_SUCCESS == 0
LGW_USB_ERROR == -1
\* uint16_t arithmetic (command_size of the burst operations)
UINT16_MOD == 65536
\* byte value a caller's output buffer holds where nothing was stored
UNTOUCHED == -1
\* an int read from memory whose content is indeterminate
NOFD == -1
\* first descriptor open() can return (0, 1, 2 are the standard streams)
FIRST_FD == 3
\* string terminator
NUL == 0
\* char portname[50], the buffer lgw_usb_open copies com_path into
PORTNAME_SIZE == 50
\* stands in the place of a return code for a call that never returned:
\* the process was killed inside it
KILLED == -2
\* a pointer that is neither NULL nor a block malloc returned
WILD == -1

Handles == 1 .. MaxAlloc
Fds == FIRST_FD .. (FIRST_FD + MaxAlloc - 1)

(* ------------------------------------------------------------------ *)
(* Terminal attributes (struct termios).  Flag words are sets of bit   *)
(* positions; the positions are those of Linux asm-generic/termbits.h. *)
(* ------------------------------------------------------------------ *)

B0 == 0
B9600 == 13
B115200 == 4098
CSIZE == {4, 5}
CS7 == {5}
CS8 == {4, 5}
CSTOPB == {6}
CREAD == {7}
PARENB == {8}
CLOCAL == {11}
IGNBRK == {0}
ICRNL == {8}
IXON == {10}
IXANY == {11}
IXOFF == {12}
\* c_oflag bits that share the positions of the input-flag masks used on it
OPOST == {0}
ONLCR == {2}
NLDLY == {8}
\* c_lflag bits
ISIG == {0}
ICANON == {1}
ECHO == {3}

\* A line has its output speed in the CBAUD bits of c_cflag (ospeed) and
\* may have an input speed of its own in the CIBAUD bits (cibaud); with
\* CIBAUD at B0 the input runs at the output speed.  ispeed is the speed
\* the input runs at.

\* the line as the OS hands it over: cooked, 9600 baud, 7E2, XON/XOFF
TtyCooked ==
    [ospeed |-> B9600, ispeed |-> B9600, cibaud |-> B0,
     cflag |-> CS7 \cup PARENB \cup CSTOPB \cup CREAD,
     iflag |-> IGNBRK \cup ICRNL \cup IXON,
     oflag |-> OPOST \cup ONLCR \cup NLDLY,
     lflag |-> ISIG \cup ICANON \cup ECHO,
     vmin |-> 1, vtime |-> 0]

\* the speed_t values cfsetospeed and cfsetispeed accept, those with no
\* bit outside CBAUD (010017): B0 .. B38400, CBAUDEX alone, and
\* B57600 .. B4000000
BaudConstants == (0 .. 15) \cup (4096 .. 4111)

\* cfsetospeed(&tty, speed) / cfsetispeed(&tty, speed): the speed is
\* stored when it is one of the Bxxx constants; otherwise the call fails
\* with EINVAL, which the code does not look at, and the speed stays
CfSetSpeed(current, speed) ==
    IF speed \in BaudConstants THEN speed ELSE current

\* the speed the input of the line runs at once tcsetattr has applied
\* the struct: cfsetispeed writes the speed into the CBAUD bits, as
\* cfsetospeed does, and leaves the CIBAUD bits as tcgetattr filled them;
\* the line takes its input speed from CIBAUD, or from CBAUD when CIBAUD
\* is B0
LineISpeed(cibaud, ospeed) ==
    IF cibaud = B0 THEN ospeed ELSE cibaud

\* the attributes set_interface_attribs_linux computes from the current ones
AttribsOf(tty, speed) ==
    [ospeed |-> CfSetSpeed(tty.ospeed, speed),
     ispeed |-> LineISpeed(tty.cibaud, CfSetSpeed(tty.ospeed, speed)),
     cibaud |-> tty.cibaud,
     cflag |-> ((((tty.cflag \ CSIZE) \cup CS8) \cup CLOCAL \cup CREAD) \ PARENB) \ CSTOPB,
     iflag |-> (tty.iflag \ IGNBRK) \ (IXON \cup IXOFF \cup IXANY \cup ICRNL),
     oflag |-> (tty.oflag \ IGNBRK) \ (IXON \cup IXOFF \cup IXANY \cup ICRNL),
     lflag |-> {},
     vmin |-> 0, vtime |-> 50]

\* the memset'ed struct edited and written back, tcgetattr's answer unused
BlockingOf_FromZeroed(tty, blocking) ==
    [ospeed |-> B0, ispeed |-> B0, cibaud |-> B0,
     cflag |-> {}, iflag |-> {}, oflag |-> {},
     lflag |-> {}, vmin |-> IF blocking = TRUE THEN 1 ELSE 0, vtime |-> 1]

\* the attributes set_blocking_linux computes from the current ones
BlockingOf(tty, blocking) ==
    [tty EXCEPT !.vmin = IF blocking = TRUE THEN 1 ELSE 0, !.vtime = 1]

\* set_interface_attribs_linux(fd, speed): tcgetattr, edit, tcsetattr.
\* Yields the return code and the line's attributes afterwards.
set_interface_attribs_linux(tty, speed, getOk, setOk) ==
    IF ~getOk THEN [ret |-> LGW_USB_ERROR, tty |-> tty]
    ELSE IF ~setOk THEN [ret |-> LGW_USB_ERROR, tty |-> tty]
    ELSE [ret |-> LGW_USB_SUCCESS, tty |-> AttribsOf(tty, speed)]

\* set_blocking_linux(fd, blocking): tcgetattr, set VMIN/VTIME, tcsetattr.
set_blocking_linux(tty, blocking, getOk, setOk) ==
    IF ~getOk THEN [ret |-> LGW_USB_ERROR, tty |-> tty]
    ELSE IF ~setOk THEN [ret |-> LGW_USB_ERROR, tty |-> tty]
    ELSE [ret |-> LGW_USB_SUCCESS, tty |-> BlockingOf(tty, blocking)]

\* x |= y on two return codes that are each 0 or -1
OrRet(x, y) == IF x = 0 /\ y = 0 THEN 0 ELSE -1

(* ------------------------------------------------------------------ *)
(* Firmware version strings (sequences of character codes)             *)
(* ------------------------------------------------------------------ *)

\* "01.00.00", the version the host library expects
mcu_version_string == <<48, 49, 46, 48, 48, 46, 48, 48>>

\* versions an MCU may report: release and debug builds of the expected
\* firmware, another firmware, a truncated answer
Versions ==
    { <<82>> \o mcu_version_string,
      <<68>> \o mcu_version_string,
      <<82, 48, 49, 46, 48, 48, 46, 48, 49>>,
      <<82, 48, 49, 46, 48, 48>> }

CharAt(s, i) == IF i <= Len(s) THEN s[i] ELSE NUL

\* strncmp(s1, s2, n) on NUL-terminated strings: 0 iff equal over the
\* first n characters or up to the terminator
RECURSIVE StrncmpFrom(_, _, _, _)
StrncmpFrom(s1, s2, i, n) ==
    IF i > n THEN 0
    ELSE IF CharAt(s1, i) # CharAt(s2, i) THEN CharAt(s1, i) - CharAt(s2, i)
    ELSE IF CharAt(s1, i) = NUL THEN 0
    ELSE StrncmpFrom(s1, s2, i + 1, n)
strncmp(s1, s2, n) == StrncmpFrom(s1, s2, 1, n)

\* the comparison left out: every version accepted
VersionCmp_Skipped(version) == 0

\* strncmp(gw_info.version + 1, mcu_version_string, sizeof mcu_version_string)
VersionCmp(version) ==
    strncmp(Tail(version), mcu_version_string, Len(mcu_version_string) + 1)

(* ------------------------------------------------------------------ *)
(* Frame codec                                                         *)
(* ------------------------------------------------------------------ *)

\* a mask one bit short: (address >> 8) & 0x3F
AddrHigh7_Mask3F(address) == (address \div 256) % 64

\* (address >> 8) & 0x7F and (address >> 0) & 0xFF
AddrHigh7(address) == (address \div 256) % 128
AddrLow8(address) == address % 256

\* the mux byte left at 0
WFrame_NoMux(spi_mux_target, address, data) ==
    <<0, 0, 128 + ((address \div 256) % 128), address % 256, data>>

\* out_buf of lgw_usb_w
WFrame(spi_mux_target, address, data) ==
    <<0, spi_mux_target, 128 + AddrHigh7(address), AddrLow8(address), data>>

\* out_buf of lgw_usb_r
RFrame(spi_mux_target, address) ==
    <<0, spi_mux_target, AddrHigh7(address), AddrLow8(address), 0, 0>>

\* uint16_t command_size = size + 4 / size + 5
WbCommandSize(size) == (size + 4) % UINT16_MOD
RbCommandSize(size) == (size + 5) % UINT16_MOD

\* the bytes lgw_usb_wb stores in buf_req: the header, then data[i] at
\* buf_req[i + 4] for i < size
WbFrame(spi_mux_target, address, data, size) ==
    <<0, spi_mux_target, 128 + AddrHigh7(address), AddrLow8(address)>>
        \o SubSeq(data, 1, size)

\* the bytes lgw_usb_rb stores in buf_req: the header, then 0 at
\* buf_req[i + 5] for i < size
RbFrame(spi_mux_target, address, size) ==
    <<0, spi_mux_target, AddrHigh7(address), AddrLow8(address), 0>>
        \o [i \in 1 .. size |-> 0]

\* the first reply byte taken for the register value
RValue_FirstByte(in_buf) == in_buf[1]

\* *data = in_buf[command_size - 1]
RValue(in_buf) == in_buf[Len(in_buf)]

\* the first n bytes of pat repeated over and over (pat non-empty)
RECURSIVE Cycle(_, _)
Cycle(pat, n) ==
    IF Len(pat) >= n THEN SubSeq(pat, 1, n) ELSE Cycle(pat \o pat, n)

\* memcpy(data, in_buf + 5, size) into a buffer of size + 1 bytes (the
\* last one a guard byte); in_buf has command_size bytes, and the bytes
\* read past its end are whatever the stack holds there, the pattern
\* `oob` repeated
RbCopy(in_buf, size, oob) ==
    LET command_size == RbCommandSize(size)
        inside == IF command_size - 5 < 0 THEN 0
                  ELSE IF command_size - 5 < size THEN command_size - 5
                  ELSE size
    IN  SubSeq(in_buf, 6, 5 + inside)
            \o Cycle(oob, size - inside)
            \o <<UNTOUCHED>>

(* ------------------------------------------------------------------ *)
(* State                                                               *)
(* ------------------------------------------------------------------ *)

VARIABLES
    heap,        \* handle address -> [st, val, frees]: the malloc'ed int
    nextAlloc,   \* address the next successful malloc returns
    openFds,     \* descriptors the process holds open
    tty,         \* terminal attributes of the serial device
    com_target,  \* the caller's pointer, *com_target_ptr of lgw_usb_open
    calls,       \* the register operations issued so far, with what the
                 \* relay observed and what the caller got back
    last         \* the latest lgw_usb_open / lgw_usb_close call

vars == <<heap, nextAlloc, openFds, tty, com_target, calls, last>>

\* the record of an open or close call: op and return code; arg, the
\* pointer argument (for open, 1 when com_target_ptr is non-null); handle,
\* the block malloc returned (open) or the block passed (close); fd, the
\* descriptor open(2) returned or close read from the handle; stage, where
\* the call returned; cfg, ping, gpio, osClose, freed: the calls it made;
\* stored, whether *com_target_ptr was assigned; env, the outcomes it met;
\* ext, the external calls it made, in the order it made them; line, the
\* attributes of the serial line when open(2) returned
NoCall ==
    [op |-> "none", ret |-> 0, arg |-> NULL, handle |-> NULL, fd |-> NOFD,
     stage |-> "none", cfg |-> <<>>, ping |-> 0, gpio |-> <<>>,
     osClose |-> <<>>, closeRet |-> 0, freed |-> <<>>, stored |-> FALSE,
     env |-> <<>>, ext |-> <<>>, line |-> <<>>, ub |-> {}]

Init ==
    /\ heap = [h \in Handles |-> [st |-> "unalloc", val |-> NOFD, frees |-> 0]]
    /\ nextAlloc = 1
    /\ openFds = {}
    /\ tty = TtyCooked
    /\ com_target = NULL
    /\ calls = <<>>
    /\ last = NoCall

\* what a pointer handed to the library refers to
HandleClass(p) ==
    IF p = NULL THEN "null"
    ELSE IF p = WILD THEN "wild"
    ELSE IF heap[p].st = "live" THEN "live"
    ELSE "dangling"

\* no call so far has ended in the death of the process
Alive ==
    /\ last.ret # KILLED
    /\ \A i \in 1 .. Len(calls) : calls[i].ret # KILLED

\* usb_device = *(int *)com_target; reading released memory yields any int
Deref(p, garbage) ==
    IF HandleClass(p) = "live" THEN heap[p].val ELSE garbage

\* open(2) returns the lowest descriptor not in use
LowestFd == CHOOSE f \in Fds : f \notin openFds /\ \A g \in Fds : g < f => g \in openFds

\* free(p): the block is released; frees counts the frees of a block,
\* 2 standing for twice or more; a pointer that is no block releases none
Free(h, p) ==
    IF p \in Handles
    THEN [h EXCEPT ![p] = [@ EXCEPT !.st = "freed",
                                    !.frees = IF @ < 2 THEN @ + 1 ELSE 2]]
    ELSE h

\* *p = v
Store(h, p, v) == IF p \in Handles THEN [h EXCEPT ![p].val = v] ELSE h

\* one mcu_gpio_write(fd, bank, pin, level) and its return code
GpioCall(pin, level, ret) == [bank |-> 0, pin |-> pin, level |-> level, ret |-> ret]

\* the three mcu_gpio_write calls of the reset, all issued whatever they return
ResetSequence(r1, r2, r3) ==
    << GpioCall(1, 1, r1), GpioCall(2, 1, r2), GpioCall(2, 0, r3) >>

\* x = r1; x |= r2; x |= r3
ResetResult(r1, r2, r3) == OrRet(OrRet(r1, r2), r3)

\* the external calls of a complete lgw_usb_open, in program order
OpenSequence ==
    << "malloc", "sprintf", "open", "set_interface_attribs_linux",
       "set_blocking_linux", "srand", "mcu_ping", "mcu_gpio_write",
       "mcu_gpio_write", "mcu_gpio_write" >>

\* the external calls lgw_usb_open has made when it leaves at a stage
OpenCalls(stage) ==
    CASE stage = "null_arg" -> <<>>
      [] stage = "malloc"   -> SubSeq(OpenSequence, 1, 1)
      [] stage = "sprintf"  -> SubSeq(OpenSequence, 1, 2)
      [] stage = "os_open"  -> SubSeq(OpenSequence, 1, 3) \o <<"free">>
      [] stage = "config"   -> SubSeq(OpenSequence, 1, 5) \o <<"free">>
      [] stage = "store"    -> SubSeq(OpenSequence, 1, 5)
      [] stage = "ping"     -> SubSeq(OpenSequence, 1, 7)
      [] stage = "version"  -> SubSeq(OpenSequence, 1, 7)
      [] stage = "reset"    -> OpenSequence \o <<"free">>
      [] stage = "ready"    -> OpenSequence

\* sprintf(portname, "%s", com_path) writes pathLen + 1 bytes into
\* portname; past PORTNAME_SIZE they land on what the stack holds next to
\* it.  What that does is env.smash: "abort", a fortified sprintf
\* notices the overflow and aborts the process before anything is
\* written past the buffer; "none", nothing the call uses is
\* hit; "clobber", the local usb_device is, and holds a wild pointer into
\* mapped memory from then on; "fault", the local usb_device is, and
\* holds a pointer into unmapped memory, so that the process dies at the
\* first access through it; "kill", the return address or the stack
\* guard is, and the process dies when the call returns
SmashOf(env) ==
    IF env.pathLen + 1 > PORTNAME_SIZE THEN env.smash ELSE "none"

\* return of lgw_usb_open with the record rec
Return(env, rec) ==
    IF SmashOf(env) = "kill" THEN [rec EXCEPT !.ret = KILLED] ELSE rec

\* the local usb_device no longer holds the block malloc returned
Clobbered(env) == SmashOf(env) \in {"clobber", "fault"}

\* free(usb_device) followed by a return: free of a wild pointer into
\* mapped memory aborts the process or goes unnoticed (env.badFree); free
\* of a pointer into unmapped memory faults
FreeReturn(env, rec) ==
    IF \/ SmashOf(env) = "fault"
       \/ SmashOf(env) = "clobber" /\ env.badFree = "kill"
    THEN [rec EXCEPT !.ret = KILLED]
    ELSE Return(env, rec)

(* ------------------------------------------------------------------ *)
(* lgw_usb_open                                                        *)
(* ------------------------------------------------------------------ *)

\* env: [ptrNull, mallocOk, pathLen, smash, badFree, openOk, get1, set1,
\*       get2, set2, pingOk, version, g1, g2, g3], the length of com_path
\* and the outcomes of the calls open makes
lgw_usb_open(env) ==
    /\ Alive
    /\ IF env.ptrNull THEN
        \* CHECK_NULL(com_target_ptr)
        /\ last' = [NoCall EXCEPT !.op = "open", !.ret = LGW_USB_ERROR,
                                  !.stage = "null_arg",
                                  !.ext = OpenCalls("null_arg"), !.env = env]
        /\ UNCHANGED <<heap, nextAlloc, openFds, tty, com_target, calls>>
       ELSE IF ~env.mallocOk THEN
        /\ last' = [NoCall EXCEPT !.op = "open", !.ret = LGW_USB_ERROR,
                                  !.arg = 1, !.stage = "malloc",
                                  !.ext = OpenCalls("malloc"), !.env = env]
        /\ UNCHANGED <<heap, nextAlloc, openFds, tty, com_target, calls>>
       ELSE
        /\ nextAlloc <= MaxAlloc
        /\ LET block == nextAlloc
               alloc == [heap EXCEPT ![block] =
                            [st |-> "live", val |-> NOFD, frees |-> 0]]
               \* the value of the local usb_device once sprintf has run
               usb_device == IF Clobbered(env) THEN WILD ELSE block
               base == [NoCall EXCEPT !.op = "open", !.arg = 1,
                                      !.handle = block, !.env = env,
                                      !.ub = IF env.pathLen + 1 > PORTNAME_SIZE
                                             THEN {"portname_overflow"}
                                             ELSE {}]
           IN  /\ nextAlloc' = nextAlloc + 1
               /\ calls' = calls
               /\ IF SmashOf(env) = "abort" THEN
                      \* the process dies inside sprintf: open(2) is not
                      \* reached, the block stays allocated
                      /\ heap' = alloc
                      /\ last' = [base EXCEPT !.ret = KILLED,
                                              !.stage = "sprintf",
                                              !.ext = OpenCalls("sprintf")]
                      /\ UNCHANGED <<openFds, tty, com_target>>
                  ELSE IF ~env.openOk THEN
                      \* fd < 0: falls through to the final free
                      /\ heap' = Free(alloc, usb_device)
                      /\ last' = FreeReturn(env,
                                   [base EXCEPT !.ret = LGW_USB_ERROR,
                                                !.stage = "os_open",
                                                !.ext = OpenCalls("os_open"),
                                                !.freed = <<usb_device>>])
                      /\ UNCHANGED <<openFds, tty, com_target>>
                  ELSE
                      LET fd == LowestFd
                          a1 == set_interface_attribs_linux(tty, B115200,
                                                            env.get1, env.set1)
                          a2 == set_blocking_linux(a1.tty, TRUE,
                                                   env.get2, env.set2)
                          x  == OrRet(a1.ret, a2.ret)
                          opened == [base EXCEPT !.fd = fd, !.line = tty,
                                       !.cfg = <<"set_interface_attribs_linux",
                                                 "set_blocking_linux">>]
                      IN  /\ openFds' = openFds \cup {fd}
                          /\ tty' = a2.tty
                          /\ IF x # 0 THEN
                                 /\ heap' = Free(alloc, usb_device)
                                 /\ com_target' = com_target
                                 /\ last' = FreeReturn(env,
                                       [opened EXCEPT !.ret = LGW_USB_ERROR,
                                                !.stage = "config",
                                                !.ext = OpenCalls("config"),
                                                !.freed = <<usb_device>>])
                             ELSE IF SmashOf(env) = "fault" THEN
                                 \* *usb_device = fd faults: nothing after
                                 \* it runs, *com_target_ptr is not assigned
                                 /\ heap' = alloc
                                 /\ com_target' = com_target
                                 /\ last' = [opened EXCEPT !.ret = KILLED,
                                                !.stage = "store",
                                                !.ext = OpenCalls("store")]
                             ELSE
                                 \* *usb_device = fd; *com_target_ptr = usb_device
                                 LET set == Store(alloc, usb_device, fd)
                                     shown == [opened EXCEPT !.stored = TRUE,
                                                             !.ping = 1]
                                 IN  /\ com_target' = usb_device
                                     /\ IF ~env.pingOk THEN
                                            /\ heap' = set
                                            /\ last' = Return(env, [shown EXCEPT
                                                   !.ret = LGW_USB_ERROR,
                                                   !.stage = "ping",
                                                   !.ext = OpenCalls("ping")])
                                        ELSE IF VersionCmp(env.version) # 0 THEN
                                            /\ heap' = set
                                            /\ last' = Return(env, [shown EXCEPT
                                                   !.ret = -1,
                                                   !.stage = "version",
                                                   !.ext = OpenCalls("version")])
                                        ELSE IF ResetResult(env.g1, env.g2, env.g3) # 0 THEN
                                            /\ heap' = Free(set, usb_device)
                                            /\ last' = FreeReturn(env, [shown EXCEPT
                                                   !.ret = LGW_USB_ERROR,
                                                   !.stage = "reset",
                                                   !.ext = OpenCalls("reset"),
                                                   !.gpio = ResetSequence(env.g1, env.g2, env.g3),
                                                   !.freed = <<usb_device>>])
                                        ELSE
                                            /\ heap' = set
                                            /\ last' = Return(env, [shown EXCEPT
                                                   !.ret = LGW_USB_SUCCESS,
                                                   !.stage = "ready",
                                                   !.ext = OpenCalls("ready"),
                                                   !.gpio = ResetSequence(env.g1, env.g2, env.g3)])

(* ------------------------------------------------------------------ *)
(* lgw_usb_close                                                       *)
(* ------------------------------------------------------------------ *)

\* close(2) on a descriptor that is not open fails with EBADF; on an open
\* one it may still report an error, and Linux releases the descriptor
\* either way
OsCloseRet(fd, closeRet) == IF fd \in openFds THEN closeRet ELSE -1

\* the block kept when close(2) fails
FreedOnClose_OnlyOnSuccess(ct, a) == IF a < 0 THEN <<>> ELSE <<ct>>

\* the blocks lgw_usb_close releases, given close(2)'s answer a
FreedOnClose(ct, a) == <<ct>>

RECURSIVE FreeAll(_, _)
FreeAll(h, ps) == IF ps = <<>> THEN h ELSE FreeAll(Free(h, Head(ps)), Tail(ps))

\* close(2)'s answer dropped
CloseRet_AlwaysSuccess(a) == LGW_USB_SUCCESS

\* the return code of lgw_usb_close, given close(2)'s answer a
CloseRet(a) == IF a < 0 THEN LGW_USB_ERROR ELSE LGW_USB_SUCCESS

\* undefined behaviour a free through the pointer carries
FreeUb(ct) ==
    CASE HandleClass(ct) = "dangling" -> {"use_after_free", "double_free"}
      [] HandleClass(ct) = "wild"     -> {"wild_pointer", "invalid_free"}
      [] OTHER                        -> {}

\* ct: the pointer the caller passes, which it goes on holding, the
\* function having received it by value; garbage: what a read through a
\* pointer that is no live block yields; closeRet: close(2)'s answer for
\* an open descriptor; badFree: what free does with a block already freed
\* or a pointer that is no block, "kill" (the allocator aborts the
\* process) or "return" (it goes unnoticed)
lgw_usb_close(ct, garbage, closeRet, badFree) ==
    /\ Alive
    /\ IF ct = NULL THEN
        /\ last' = [NoCall EXCEPT !.op = "close", !.ret = LGW_USB_ERROR,
                                  !.stage = "null_arg"]
        /\ UNCHANGED <<heap, nextAlloc, openFds, tty, com_target, calls>>
       ELSE
        LET usb_device == Deref(ct, garbage)
            a == OsCloseRet(usb_device, closeRet)
            aborted == FreeUb(ct) # {} /\ badFree = "kill"
        IN  /\ openFds' = openFds \ {usb_device}
            /\ heap' = FreeAll(heap, FreedOnClose(ct, a))
            /\ last' = [NoCall EXCEPT
                   !.op = "close", !.arg = ct, !.handle = ct,
                   !.fd = usb_device, !.stage = "closed",
                   !.ext = <<"close", "free">>,
                   !.osClose = <<usb_device>>, !.closeRet = a,
                   !.freed = FreedOnClose(ct, a),
                   !.ret = IF aborted THEN KILLED ELSE CloseRet(a),
                   !.ub = FreeUb(ct)]
            /\ UNCHANGED <<nextAlloc, tty, com_target, calls>>

(* ------------------------------------------------------------------ *)
(* Register operations                                                 *)
(* ------------------------------------------------------------------ *)

\* one invocation of mcu_spi_access(fd, buf, command_size, in_buf): the
\* request buffer as the operation filled it, the length it passes,
\* whether the relay succeeds, and the reply it stores in in_buf
RelayCall(fd, buf, command_size, ok, reply) ==
    [fd |-> fd, buf |-> buf, len |-> command_size, ok |-> ok,
     reply |-> IF ok THEN reply ELSE <<>>]

\* the bytes the relay is asked to transfer: the first len bytes of buf
Sent(rc) == SubSeq(rc.buf, 1, rc.len)

\* the record of one register operation
Call(op, ct, dataNull, mux, address, data, size, ret, relay, out, ub) ==
    [op |-> op, handle |-> HandleClass(ct), dataNull |-> dataNull,
     mux |-> mux, address |-> address, data |-> data, size |-> size,
     ret |-> ret, relay |-> relay, out |-> out, ub |-> ub]

\* undefined behaviour an access through the handle pointer carries
DerefUb(ct) ==
    CASE HandleClass(ct) = "dangling" -> {"use_after_free"}
      [] HandleClass(ct) = "wild"     -> {"wild_pointer"}
      [] OTHER                        -> {}

\* uint8_t in_buf[command_size] with command_size = 0
VlaUb(command_size) == IF command_size = 0 THEN {"zero_length_vla"} ELSE {}

\* memcpy(data, in_buf + 5, size) reading past in_buf[command_size - 1]
CopyUb(command_size, size) ==
    IF size > 0 /\ 5 + size > command_size THEN {"read_past_in_buf"} ELSE {}

\* CHECK_NULL(com_target) alone, the data pointer not looked at
NullArg_HandleOnly(ct, dataNull) == ct = NULL

\* CHECK_NULL(com_target); CHECK_NULL(data): whether one of them returns
\* LGW_USB_ERROR (lgw_usb_w has no data pointer and passes FALSE)
NullArg(ct, dataNull) == ct = NULL \/ dataNull

\* a = mcu_spi_access(...); return code of the four operations
RetOf(ok) == IF ok THEN 0 ELSE -1

\* in: [ct, garbage, mux, address, data, ok]
lgw_usb_w(in) ==
    /\ Alive
    /\ calls' = Append(calls,
         IF NullArg(in.ct, FALSE) THEN
             Call("w", in.ct, FALSE, in.mux, in.address, in.data, 1,
                  LGW_USB_ERROR, <<>>, <<>>, {})
         ELSE
             LET usb_device == Deref(in.ct, in.garbage)
                 out_buf == WFrame(in.mux, in.address, in.data)
             IN  Call("w", in.ct, FALSE, in.mux, in.address, in.data, 1,
                      RetOf(in.ok),
                      <<RelayCall(usb_device, out_buf, 5, in.ok, <<>>)>>,
                      <<>>, DerefUb(in.ct)))
    /\ UNCHANGED <<heap, nextAlloc, openFds, tty, com_target, last>>

\* *data assigned before the relay's return code is looked at
ROut_Always(ok, in_buf) == <<RValue(in_buf)>>

\* the caller's byte after lgw_usb_r: assigned in the success branch only
ROut(ok, in_buf) == IF ok THEN <<RValue(in_buf)>> ELSE <<UNTOUCHED>>

\* in: [ct, garbage, mux, address, dataNull, ok, reply]; the caller's
\* output byte is UNTOUCHED before the call
lgw_usb_r(in) ==
    /\ Alive
    /\ calls' = Append(calls,
         IF NullArg(in.ct, in.dataNull) THEN
             Call("r", in.ct, in.dataNull, in.mux, in.address, <<>>, 1,
                  LGW_USB_ERROR, <<>>,
                  IF in.dataNull THEN <<>> ELSE <<UNTOUCHED>>, {})
         ELSE
             LET usb_device == Deref(in.ct, in.garbage)
                 out_buf == RFrame(in.mux, in.address)
             IN  Call("r", in.ct, in.dataNull, in.mux, in.address, <<>>, 1,
                      RetOf(in.ok),
                      <<RelayCall(usb_device, out_buf, 6, in.ok, in.reply)>>,
                      ROut(in.ok, in.reply),
                      DerefUb(in.ct)))
    /\ UNCHANGED <<heap, nextAlloc, openFds, tty, com_target, last>>

\* in: [ct, garbage, mux, address, data, dataNull, size, ok]
lgw_usb_wb(in) ==
    /\ Alive
    /\ calls' = Append(calls,
         LET command_size == WbCommandSize(in.size)
         IN  IF NullArg(in.ct, in.dataNull) THEN
                 Call("wb", in.ct, in.dataNull, in.mux, in.address, in.data,
                      in.size, LGW_USB_ERROR, <<>>, <<>>, VlaUb(command_size))
             ELSE
                 LET usb_device == Deref(in.ct, in.garbage)
                     buf_req == WbFrame(in.mux, in.address, in.data, in.size)
                 IN  Call("wb", in.ct, in.dataNull, in.mux, in.address, in.data,
                          in.size, RetOf(in.ok),
                          <<RelayCall(usb_device, buf_req, command_size, in.ok,
                                      <<>>)>>,
                          <<>>, DerefUb(in.ct) \cup VlaUb(command_size)))
    /\ UNCHANGED <<heap, nextAlloc, openFds, tty, com_target, last>>

\* in: [ct, garbage, mux, address, dataNull, size, ok, reply, oob,
\* fault]; the caller's buffer has size bytes and, in the model, a guard
\* byte after them, all UNTOUCHED before the call.  A memcpy that reads
\* past in_buf copies what the stack holds there (oob) or, when the read
\* leaves the mapped stack (fault), ends in the death of the process.
lgw_usb_rb(in) ==
    /\ Alive
    /\ calls' = Append(calls,
         LET command_size == RbCommandSize(in.size)
             untouched == [i \in 1 .. (in.size + 1) |-> UNTOUCHED]
         IN  IF NullArg(in.ct, in.dataNull) THEN
                 Call("rb", in.ct, in.dataNull, in.mux, in.address, <<>>,
                      in.size, LGW_USB_ERROR, <<>>,
                      IF in.dataNull THEN <<>> ELSE untouched,
                      VlaUb(command_size))
             ELSE
                 LET usb_device == Deref(in.ct, in.garbage)
                     buf_req == RbFrame(in.mux, in.address, in.size)
                     copyUb == IF in.ok THEN CopyUb(command_size, in.size)
                               ELSE {}
                     killed == copyUb # {} /\ in.fault
                 IN  Call("rb", in.ct, in.dataNull, in.mux, in.address, <<>>,
                          in.size,
                          IF killed THEN KILLED ELSE RetOf(in.ok),
                          <<RelayCall(usb_device, buf_req, command_size, in.ok,
                                      in.reply)>>,
                          IF killed THEN <<>>
                          ELSE IF in.ok THEN RbCopy(in.reply, in.size, in.oob)
                          ELSE untouched,
                          DerefUb(in.ct) \cup VlaUb(command_size) \cup copyUb))
    /\ UNCHANGED <<heap, nextAlloc, openFds, tty, com_target, last>>

(* ------------------------------------------------------------------ *)
(* Inputs                                                              *)
(* ------------------------------------------------------------------ *)

\* an open in which every call open makes succeeds
OkEnv ==
    [ptrNull |-> FALSE, mallocOk |-> TRUE,
     pathLen |-> 12, smash |-> "none", badFree |-> "kill", openOk |-> TRUE,
     get1 |-> TRUE, set1 |-> TRUE, get2 |-> TRUE, set2 |-> TRUE,
     pingOk |-> TRUE, version |-> <<82>> \o mcu_version_string,
     g1 |-> 0, g2 |-> 0, g3 |-> 0]

\* what the overflow of portname does, and what free does with a wild
\* pointer into mapped memory
SmashOutcomes ==
    { [smash |-> "abort", badFree |-> "kill"],
      [smash |-> "none", badFree |-> "kill"],
      [smash |-> "kill", badFree |-> "kill"],
      [smash |-> "fault", badFree |-> "kill"],
      [smash |-> "clobber", badFree |-> "kill"],
      [smash |-> "clobber", badFree |-> "return"] }

\* an open that goes through, and one for each place open leaves at after
\* the sprintf
LeaveEnvs ==
    { OkEnv,
      [OkEnv EXCEPT !.openOk = FALSE],
      [OkEnv EXCEPT !.set2 = FALSE],
      [OkEnv EXCEPT !.pingOk = FALSE],
      [OkEnv EXCEPT !.g1 = -1] }

\* a com_path of 120 characters: every outcome of the overflow at every
\* place open leaves at
LongPathEnvs ==
    { [e EXCEPT !.pathLen = 120, !.smash = o.smash, !.badFree = o.badFree] :
        e \in LeaveEnvs, o \in SmashOutcomes }

\* every way the calls open makes can turn out
OpenEnvs ==
    { [OkEnv EXCEPT !.ptrNull = TRUE],
      [OkEnv EXCEPT !.mallocOk = FALSE],
      [OkEnv EXCEPT !.openOk = FALSE],
      [OkEnv EXCEPT !.pingOk = FALSE] }
    \cup { [OkEnv EXCEPT !.get1 = a, !.set1 = b, !.get2 = c, !.set2 = d] :
             a \in BOOLEAN, b \in BOOLEAN, c \in BOOLEAN, d \in BOOLEAN }
    \cup { [OkEnv EXCEPT !.version = v] : v \in Versions }
    \cup { [OkEnv EXCEPT !.g1 = a, !.g2 = b, !.g3 = c] :
             a \in {0, -1}, b \in {0, -1}, c \in {0, -1} }
    \cup { [OkEnv EXCEPT !.pathLen = PORTNAME_SIZE - 1] }
    \cup { [OkEnv EXCEPT !.pathLen = PORTNAME_SIZE, !.smash = o] :
             o \in {"none", "abort"} }
    \cup LongPathEnvs

\* one environment for each place lgw_usb_open can leave at, and the long
\* paths
SessionEnvs ==
    { OkEnv,
      [OkEnv EXCEPT !.ptrNull = TRUE],
      [OkEnv EXCEPT !.mallocOk = FALSE],
      [OkEnv EXCEPT !.openOk = FALSE],
      [OkEnv EXCEPT !.set2 = FALSE],
      [OkEnv EXCEPT !.pingOk = FALSE],
      [OkEnv EXCEPT !.version = <<82, 48, 49, 46, 48, 48, 46, 48, 49>>],
      [OkEnv EXCEPT !.g3 = -1] }
    \cup LongPathEnvs

\* pointers a caller passes: NULL or what open stored for it
CallerPointers == {NULL, com_target}

\* what free can do with the pointer: only a block already freed or a
\* pointer that is no block leaves it a choice
BadFreeFor(ct) ==
    IF HandleClass(ct) \in {"dangling", "wild"} THEN {"kill", "return"}
    ELSE {"kill"}

\* what a read through the pointer can yield when it is no live block:
\* released memory holds the descriptor number the block used to hold, or
\* something else; behind a wild pointer is the descriptor open stored
\* through it, or something else
GarbageFor(ct) ==
    CASE HandleClass(ct) = "dangling" -> {heap[ct].val, NOFD}
      [] HandleClass(ct) = "wild"     -> openFds \cup {NOFD}
      [] OTHER                        -> {NOFD}

\* a reply of command_size bytes: filler in the header positions, the
\* payload after them
JUNK == 238
ReplyOf(command_size, payload) ==
    [i \in 1 .. command_size |->
        IF i <= command_size - Len(payload) THEN JUNK
        ELSE payload[i - (command_size - Len(payload))]]

RReplies(vals) == { ReplyOf(6, <<v>>) : v \in vals }
RbReplies(size, vals) ==
    { ReplyOf(RbCommandSize(size), p) : p \in [1 .. size -> vals] }

(* ------------------------------------------------------------------ *)
(* Spec: the session lifecycle.  Any sequence of open and close calls, *)
(* open leaving at each of its returns, and the write and read of the  *)
(* 0x0042 / 0x7F scenario on whatever pointer the caller holds, which  *)
(* after a close is the pointer it closed.                             *)
(* ------------------------------------------------------------------ *)

\* the relay answers; the pointer is the one the caller holds
SpecW ==
    { [ct |-> com_target, garbage |-> g, mux |-> 0, address |-> 66,
       data |-> 127, ok |-> TRUE] : g \in GarbageFor(com_target) }
SpecR ==
    { [ct |-> com_target, garbage |-> g, mux |-> 0, address |-> 66,
       dataNull |-> FALSE, ok |-> TRUE, reply |-> ReplyOf(6, <<127>>)] :
        g \in GarbageFor(com_target) }
Open == \E env \in SessionEnvs : lgw_usb_open(env)
Close ==
    \E ct \in CallerPointers : \E g \in GarbageFor(ct) : \E c \in {0, -1} :
        \E f \in BadFreeFor(ct) : lgw_usb_close(ct, g, c, f)
Write == Len(calls) < MaxSessionOps /\ \E in \in SpecW : lgw_usb_w(in)
Read == Len(calls) < MaxSessionOps /\ \E in \in SpecR : lgw_usb_r(in)

Next == Open \/ Close \/ Write \/ Read

Spec == Init /\ [][Next]_vars

(* ------------------------------------------------------------------ *)
(* SpecOpen: lgw_usb_open alone, with every combination of outcomes of *)
(* the calls it makes and with paths that fit portname and paths that  *)
(* do not.                                                             *)
(* ------------------------------------------------------------------ *)

OpenAny == \E env \in OpenEnvs : lgw_usb_open(env)

NextOpen == OpenAny

SpecOpen == Init /\ [][NextOpen]_vars

(* ------------------------------------------------------------------ *)
(* SpecOps: register traffic on an opened session.  Every call open    *)
(* makes succeeds; the relay fails or succeeds on each operation.      *)
(* ------------------------------------------------------------------ *)

OpsBytes == {127, 0}
OpsBurst == { <<>>, <<127, 1>> }

OpsW ==
    { [ct |-> com_target, garbage |-> NOFD, mux |-> 0, address |-> 66,
       data |-> 127, ok |-> ok] : ok \in BOOLEAN }
OpsR ==
    { [ct |-> com_target, garbage |-> NOFD, mux |-> 0, address |-> 66,
       dataNull |-> FALSE, ok |-> ok, reply |-> rep] :
        ok \in BOOLEAN, rep \in RReplies(OpsBytes) }
OpsWb ==
    { [ct |-> com_target, garbage |-> NOFD, mux |-> 0, address |-> 66,
       data |-> d, dataNull |-> FALSE, size |-> Len(d), ok |-> ok] :
        d \in OpsBurst, ok \in BOOLEAN }
OpsRb ==
    { [ct |-> com_target, garbage |-> NOFD, mux |-> 0, address |-> 66,
       dataNull |-> FALSE, size |-> Len(d), ok |-> ok,
       reply |-> ReplyOf(RbCommandSize(Len(d)), d), oob |-> <<0>>, fault |-> FALSE] :
        d \in OpsBurst, ok \in BOOLEAN }

\* the caller issues register traffic once open has given it a session
Opened == HandleClass(com_target) = "live" /\ Len(calls) < MaxOps

OpenOk == lgw_usb_open(OkEnv)
OpsWrite == Opened /\ \E in \in OpsW : lgw_usb_w(in)
OpsRead == Opened /\ \E in \in OpsR : lgw_usb_r(in)
OpsBurstWrite == Opened /\ \E in \in OpsWb : lgw_usb_wb(in)
OpsBurstRead == Opened /\ \E in \in OpsRb : lgw_usb_rb(in)

NextOps == OpenOk \/ OpsWrite \/ OpsRead \/ OpsBurstWrite \/ OpsBurstRead

SpecOps == Init /\ [][NextOps]_vars

(* ------------------------------------------------------------------ *)
(* SpecCodec: one register operation on an opened session, its         *)
(* arguments drawn from the whole range of their C types.              *)
(* ------------------------------------------------------------------ *)

\* uint8_t mux targets and data bytes: both ends, the middle, a few others
CodecMuxes == {0, 1, 2, 255}
CodecBytes == {0, 1, 127, 128, 255}
\* uint16_t addresses: every power of two and its predecessor, and a few
\* mixed patterns, with and without bit 15
CodecAddrs ==
    { 2^k : k \in 0 .. 15 } \cup { 2^k - 1 : k \in 0 .. 16 }
    \cup {66, 4660, 21845, 32834}
\* burst payload bytes
BurstBytes == {127, 1}
\* a byte the caller's large buffers are filled with
FILL == 165
\* burst sizes at the top of uint16_t
BigSizes == {65530, 65531, 65532, 65535}

\* (data, size) of a burst write: every buffer of up to MaxBurst bytes
\* passed whole, one passed in part, and the large sizes
BurstArgs ==
    { [data |-> d, size |-> Len(d)] :
        d \in UNION { [1 .. n -> BurstBytes] : n \in 0 .. MaxBurst } }
    \cup { [data |-> <<127, 1>>, size |-> 1] }
BigBurstArgs ==
    { [data |-> [i \in 1 .. n |-> FILL], size |-> n] : n \in BigSizes }

\* replies to a burst read of the given size
BigRbReplies(size) ==
    IF RbCommandSize(size) = size + 5
    THEN { [i \in 1 .. (size + 5) |-> IF i <= 5 THEN JUNK ELSE FILL] }
    ELSE { [i \in 1 .. RbCommandSize(size) |-> JUNK] }

CodecW ==
    { [ct |-> com_target, garbage |-> NOFD, mux |-> m, address |-> a,
       data |-> d, ok |-> ok] :
        m \in CodecMuxes, a \in CodecAddrs, d \in CodecBytes, ok \in BOOLEAN }
CodecR ==
    { [ct |-> com_target, garbage |-> NOFD, mux |-> m, address |-> a,
       dataNull |-> FALSE, ok |-> ok, reply |-> rep] :
        m \in CodecMuxes, a \in CodecAddrs, ok \in BOOLEAN,
        rep \in RReplies(CodecBytes) }
CodecWb ==
    { [ct |-> com_target, garbage |-> NOFD, mux |-> m, address |-> a,
       data |-> b.data, dataNull |-> FALSE, size |-> b.size, ok |-> ok] :
        m \in CodecMuxes, a \in CodecAddrs, b \in BurstArgs, ok \in BOOLEAN }
    \cup
    { [ct |-> com_target, garbage |-> NOFD, mux |-> 0, address |-> 66,
       data |-> b.data, dataNull |-> FALSE, size |-> b.size, ok |-> ok] :
        b \in BigBurstArgs, ok \in BOOLEAN }
CodecRb ==
    UNION { { [ct |-> com_target, garbage |-> NOFD, mux |-> m, address |-> a,
               dataNull |-> FALSE, size |-> n, ok |-> ok, reply |-> rep,
               oob |-> <<0>>, fault |-> FALSE] :
                m \in CodecMuxes, a \in CodecAddrs, ok \in BOOLEAN,
                rep \in RbReplies(n, BurstBytes) } : n \in 0 .. MaxBurst }
    \cup
    UNION { { [ct |-> com_target, garbage |-> NOFD, mux |-> 0, address |-> 66,
               dataNull |-> FALSE, size |-> n, ok |-> ok, reply |-> rep,
               oob |-> oob, fault |-> f] :
                ok \in BOOLEAN, rep \in BigRbReplies(n),
                oob \in {<<0>>, <<86, 0, 0, 3>>}, f \in BOOLEAN } :
            n \in BigSizes }

\* the single operation of a behaviour of SpecCodec
First == HandleClass(com_target) = "live" /\ calls = <<>>

CodecWrite == First /\ \E in \in CodecW : lgw_usb_w(in)
CodecRead == First /\ \E in \in CodecR : lgw_usb_r(in)
CodecBurstWrite == First /\ \E in \in CodecWb : lgw_usb_wb(in)
CodecBurstRead == First /\ \E in \in CodecRb : lgw_usb_rb(in)

NextCodec ==
    \/ nextAlloc = 1 /\ lgw_usb_open(OkEnv)
    \/ CodecWrite
    \/ CodecRead
    \/ CodecBurstWrite
    \/ CodecBurstRead

SpecCodec == Init /\ [][NextCodec]_vars

(* ------------------------------------------------------------------ *)
(* SpecArgs: register operations with the pointer arguments a caller   *)
(* can get wrong.  The handle is NULL or the one open stored, the data *)
(* pointer is NULL or a buffer, before and after a successful open.    *)
(* ------------------------------------------------------------------ *)

MaxArgOps == 2

ArgsSizes == {0, 2}

ArgsW ==
    { [ct |-> ct, garbage |-> NOFD, mux |-> 0, address |-> 66,
       data |-> 127, ok |-> ok] :
        ct \in CallerPointers, ok \in BOOLEAN }
ArgsR ==
    { [ct |-> ct, garbage |-> NOFD, mux |-> 0, address |-> 66,
       dataNull |-> dn, ok |-> ok, reply |-> ReplyOf(6, <<127>>)] :
        ct \in CallerPointers, dn \in BOOLEAN, ok \in BOOLEAN }
ArgsWb ==
    { [ct |-> ct, garbage |-> NOFD, mux |-> 0, address |-> 66,
       data |-> [i \in 1 .. n |-> 127], dataNull |-> dn, size |-> n,
       ok |-> ok] :
        ct \in CallerPointers, dn \in BOOLEAN, n \in ArgsSizes,
        ok \in BOOLEAN }
ArgsRb ==
    { [ct |-> ct, garbage |-> NOFD, mux |-> 0, address |-> 66,
       dataNull |-> dn, size |-> n, ok |-> ok,
       reply |-> ReplyOf(RbCommandSize(n), [i \in 1 .. n |-> 127]),
       oob |-> <<0>>, fault |-> FALSE] :
        ct \in CallerPointers, dn \in BOOLEAN, n \in ArgsSizes,
        ok \in BOOLEAN }

\* the caller holds NULL or a live handle, never a released one
ArgsReady == HandleClass(com_target) # "dangling" /\ Len(calls) < MaxArgOps

ArgsOpen == nextAlloc = 1 /\ lgw_usb_open(OkEnv)
ArgsWrite == ArgsReady /\ \E in \in ArgsW : lgw_usb_w(in)
ArgsRead == ArgsReady /\ \E in \in ArgsR : lgw_usb_r(in)
ArgsBurstWrite == ArgsReady /\ \E in \in ArgsWb : lgw_usb_wb(in)
ArgsBurstRead == ArgsReady /\ \E in \in ArgsRb : lgw_usb_rb(in)

NextArgs ==
    ArgsOpen \/ ArgsWrite \/ ArgsRead \/ ArgsBurstWrite \/ ArgsBurstRead

SpecArgs == Init /\ [][NextArgs]_vars

(* ------------------------------------------------------------------ *)
(* SpecTty: the line's attributes.  The serial line starts in any of a *)
(* few configurations; lgw_usb_open runs on it with every outcome of   *)
(* its calls, and set_blocking_linux, which is not static, is called   *)
(* on the open descriptor in both modes.                               *)
(* ------------------------------------------------------------------ *)

\* a line left raw at 115200 8N1 by an earlier session, short timeout
TtyRaw ==
    [ospeed |-> B115200, ispeed |-> B115200, cibaud |-> B0,
     cflag |-> CS8 \cup CREAD \cup CLOCAL,
     iflag |-> {}, oflag |-> {}, lflag |-> {},
     vmin |-> 0, vtime |-> 1]

\* a line with software flow control and two stop bits, echo on, its
\* input slower than its output
TtySplit ==
    [ospeed |-> B115200, ispeed |-> B9600, cibaud |-> B9600,
     cflag |-> CS8 \cup CSTOPB \cup CLOCAL,
     iflag |-> IXON \cup IXOFF \cup IXANY,
     oflag |-> OPOST,
     lflag |-> ECHO,
     vmin |-> 0, vtime |-> 50]

\* the same line with its input faster than its output
TtyFlow ==
    [ospeed |-> B9600, ispeed |-> B115200, cibaud |-> B115200,
     cflag |-> CS8 \cup CSTOPB \cup CLOCAL,
     iflag |-> IXON \cup IXOFF \cup IXANY,
     oflag |-> OPOST,
     lflag |-> ECHO,
     vmin |-> 0, vtime |-> 50]

\* a raw line whose input speed is set in CIBAUD to the speed of its
\* output
TtyPinned ==
    [ospeed |-> B9600, ispeed |-> B9600, cibaud |-> B9600,
     cflag |-> CS8 \cup CREAD \cup CLOCAL,
     iflag |-> {}, oflag |-> {}, lflag |-> {},
     vmin |-> 0, vtime |-> 1]

TtyStates == {TtyCooked, TtyRaw, TtyFlow, TtySplit, TtyPinned}

InitTty ==
    /\ heap = [h \in Handles |-> [st |-> "unalloc", val |-> NOFD, frees |-> 0]]
    /\ nextAlloc = 1
    /\ openFds = {}
    /\ tty \in TtyStates
    /\ com_target = NULL
    /\ calls = <<>>
    /\ last = NoCall

\* set_blocking_linux(fd, blocking) called on a descriptor of the line;
\* the record keeps the attributes the line had before the call
SetBlocking(blocking, getOk, setOk) ==
    LET a == set_blocking_linux(tty, blocking, getOk, setOk)
    IN  /\ Alive
        /\ openFds # {}
        /\ tty' = a.tty
        /\ last' = [NoCall EXCEPT
               !.op = "set_blocking_linux", !.ret = a.ret,
               !.ext = <<"tcgetattr">> \o (IF getOk THEN <<"tcsetattr">> ELSE <<>>),
               !.env = [blocking |-> blocking, getOk |-> getOk,
                        setOk |-> setOk, tty |-> tty]]
        /\ UNCHANGED <<heap, nextAlloc, openFds, com_target, calls>>

\* set_interface_attribs_linux(fd, speed) called on a descriptor of the
\* line, with a Bxxx constant or with a baud rate written as a number
SetAttribs(speed, getOk, setOk) ==
    LET a == set_interface_attribs_linux(tty, speed, getOk, setOk)
    IN  /\ Alive
        /\ openFds # {}
        /\ tty' = a.tty
        /\ last' = [NoCall EXCEPT
               !.op = "set_interface_attribs_linux", !.ret = a.ret,
               !.ext = <<"tcgetattr">> \o (IF getOk THEN <<"tcsetattr">> ELSE <<>>),
               !.env = [speed |-> speed, getOk |-> getOk,
                        setOk |-> setOk, tty |-> tty]]
        /\ UNCHANGED <<heap, nextAlloc, openFds, com_target, calls>>

\* B9600, B115200, CBAUDEX alone, and 115200 as a plain number
TtySpeeds == {B9600, B115200, 4096, 115200}

TtyOpen == nextAlloc = 1 /\ \E env \in OpenEnvs : lgw_usb_open(env)
TtySetAttribs ==
    \E speed \in TtySpeeds, getOk \in BOOLEAN, setOk \in BOOLEAN :
        SetAttribs(speed, getOk, setOk)
TtySetBlocking ==
    \E blocking \in BOOLEAN, getOk \in BOOLEAN, setOk \in BOOLEAN :
        SetBlocking(blocking, getOk, setOk)

NextTty == TtyOpen \/ TtySetBlocking \/ TtySetAttribs

SpecTty == InitTty /\ [][NextTty]_vars

(* ------------------------------------------------------------------ *)
(* Properties                                                          *)
(* ------------------------------------------------------------------ *)

\* the operations that reached the relay
Relayed == { i \in 1 .. Len(calls) : Len(calls[i].relay) = 1 }

\* the 15-bit register addresses
Addr15(address) == address < 32768

\* call i writes 0x7F to register 0x0042 and call i + 1 reads register
\* 0x0042, both with mux 0 on the session a successful open returned
EndToEnd(i) ==
    /\ last.op = "open" /\ last.ret = LGW_USB_SUCCESS
    /\ i + 1 <= Len(calls)
    /\ calls[i].op = "w" /\ calls[i].handle = "live"
    /\ calls[i].mux = 0 /\ calls[i].address = 66 /\ calls[i].data = 127
    /\ calls[i + 1].op = "r" /\ calls[i + 1].handle = "live"
    /\ calls[i + 1].mux = 0 /\ calls[i + 1].address = 66

\* the read of call i got a reply whose last byte is 0x7F
Replied7F(i) ==
    /\ calls[i].relay[1].ok
    /\ calls[i].relay[1].reply[6] = 127

\* C1 as stated: the relay observes the write frame [0,0,0xC0,0x42,0x7F],
\* then the read frame [0,0,0x40,0x42,0,0], and the read returns 0x7F when
\* the reply carries 0x7F in its last byte.
C1_FramesC0_40 ==
    \A i \in 1 .. Len(calls) :
        EndToEnd(i) =>
            /\ Sent(calls[i].relay[1]) = <<0, 0, 192, 66, 127>>
            /\ Sent(calls[i + 1].relay[1]) = <<0, 0, 64, 66, 0, 0>>
            /\ Replied7F(i + 1) =>
                   calls[i + 1].ret = 0 /\ calls[i + 1].out = <<127>>

\* C1 amended: the relay observes the write frame [0,0,0x80,0x42,0x7F],
\* then the read frame [0,0,0x00,0x42,0,0], and the read returns 0x7F when
\* the reply carries 0x7F in its last byte.
C1_Frames80_00 ==
    \A i \in 1 .. Len(calls) :
        EndToEnd(i) =>
            /\ Sent(calls[i].relay[1]) = <<0, 0, 128, 66, 127>>
            /\ Sent(calls[i + 1].relay[1]) = <<0, 0, 0, 66, 0, 0>>
            /\ Replied7F(i + 1) =>
                   calls[i + 1].ret = 0 /\ calls[i + 1].out = <<127>>

C1_Witness ==
    \E i \in 1 .. Len(calls) :
        EndToEnd(i) /\ Replied7F(i + 1) /\ calls[i + 1].out = <<127>>

\* bits 8..14 and bits 0..7 of an address, by place value
Bits8to14(address) == (address % 32768) \div 256
Bits0to7(address) == address - 256 * (address \div 256)

\* C2: the bytes each operation asks the relay to transfer have the
\* documented layout: w [0, mux, 0x80|hi, lo, data]; r [0, mux, hi, lo, 0, 0];
\* wb [0, mux, 0x80|hi, lo] then data[0..N); rb [0, mux, hi, lo, 0] then N
\* zero bytes -- for every mux, address and data.
C2_FrameLayout ==
    \A i \in Relayed :
        LET c == calls[i]
            f == Sent(c.relay[1])
            hi == Bits8to14(c.address)
            lo == Bits0to7(c.address)
        IN  /\ c.op = "w" => f = <<0, c.mux, 128 + hi, lo, c.data>>
            /\ c.op = "r" => f = <<0, c.mux, hi, lo, 0, 0>>
            /\ c.op = "wb" =>
                   f = <<0, c.mux, 128 + hi, lo>> \o SubSeq(c.data, 1, c.size)
            /\ c.op = "rb" =>
                   f = <<0, c.mux, hi, lo, 0>> \o [k \in 1 .. c.size |-> 0]

\* C3: for a 15-bit address, bit 7 of byte index 2 of the request is 1
\* for w and wb and 0 for r and rb, and the low 7 bits of byte index 2
\* followed by the 8 bits of byte index 3 are the address.
C3_AddressEncoding ==
    \A i \in Relayed :
        LET c == calls[i]
            b == c.relay[1].buf
        IN  Addr15(c.address) =>
                /\ b[3] \div 128 = (IF c.op \in {"w", "wb"} THEN 1 ELSE 0)
                /\ (b[3] % 128) * 256 + b[4] = c.address

\* a burst write to the highest 15-bit address
C3_Witness ==
    \E i \in Relayed : calls[i].op = "wb" /\ calls[i].address = 32767
                       /\ calls[i].relay[1].buf[3] = 255

\* the valid arguments of a single write that SpecCodec draws from
ValidTriples ==
    { <<m, a, d>> : m \in CodecMuxes, a \in { x \in CodecAddrs : Addr15(x) },
                    d \in CodecBytes }

\* C4: decoding the 5-byte frame of lgw_usb_w (mux from byte 1, address
\* from the low 7 bits of byte 2 and byte 3, data from byte 4) gives back
\* the (mux, address, data) passed in, and no other valid triple produces
\* that frame.
C4_WriteRoundTrip ==
    \A i \in Relayed :
        LET c == calls[i]
            f == Sent(c.relay[1])
        IN  (c.op = "w" /\ Addr15(c.address)) =>
                /\ Len(f) = 5
                /\ <<f[2], (f[3] % 128) * 256 + f[4], f[5]>>
                       = <<c.mux, c.address, c.data>>
                /\ \A t \in ValidTriples :
                       WFrame(t[1], t[2], t[3]) = f =>
                           t = <<c.mux, c.address, c.data>>

C4_Witness ==
    \E i \in Relayed :
        /\ calls[i].op = "w" /\ calls[i].mux = 255
        /\ calls[i].address = 32767 /\ calls[i].data = 255
        /\ Sent(calls[i].relay[1]) = <<0, 255, 255, 255, 255>>

\* C5: for every burst size N a uint16_t can hold, the length lgw_usb_wb
\* passes to the relay is N + 4 and the length lgw_usb_rb passes is N + 5.
C5_BurstLength ==
    \A i \in Relayed :
        /\ calls[i].op = "wb" => calls[i].relay[1].len = calls[i].size + 4
        /\ calls[i].op = "rb" => calls[i].relay[1].len = calls[i].size + 5

\* C6: every operation on a valid handle invokes the relay exactly once,
\* returns the transfer error exactly when that invocation failed and
\* success when it succeeded, whatever happened to the operations before
\* and after it.
C6_OneRelayCallEach ==
    \A i \in 1 .. Len(calls) :
        calls[i].handle = "live" =>
            /\ Len(calls[i].relay) = 1
            /\ calls[i].relay[1].ok => calls[i].ret = 0
            /\ ~calls[i].relay[1].ok => calls[i].ret = -1

\* lgw_usb_open has just returned an error
OpenFailed == last.op = "open" /\ last.ret # LGW_USB_SUCCESS

\* C7: when lgw_usb_open returns an error after the OS open succeeded,
\* the descriptor it obtained is closed: none is left open on a failing
\* path.
C7_NoDescriptorLeft ==
    (OpenFailed /\ last.fd # NOFD) => last.fd \notin openFds

\* C8: on every path where lgw_usb_open returns an error, the handle
\* memory it allocated has been freed exactly once.
C8_HandleFreedOnce ==
    (OpenFailed /\ last.handle # NULL) =>
        /\ last.freed = <<last.handle>>
        /\ heap[last.handle].st = "freed"
        /\ heap[last.handle].frees = 1

\* every call lgw_usb_open makes succeeded
AllSucceeded(env) ==
    /\ ~env.ptrNull /\ env.mallocOk /\ env.openOk
    /\ env.get1 /\ env.set1 /\ env.get2 /\ env.set2
    /\ env.pingOk /\ Tail(env.version) = mcu_version_string
    /\ env.g1 = 0 /\ env.g2 = 0 /\ env.g3 = 0

\* C9: lgw_usb_open returns success only if the OS open, the link
\* configuration, the ping, the version comparison and every GPIO write
\* succeeded, and when it returns an error it has stored no handle in
\* *com_target_ptr.
C9_OpenAtomic ==
    last.op = "open" =>
        /\ last.ret = LGW_USB_SUCCESS => AllSucceeded(last.env)
        /\ last.ret # LGW_USB_SUCCESS => ~last.stored

\* C10: lgw_usb_close on a non-null handle calls close(2) once and free
\* on the handle, whether close(2) succeeds or fails; when the handle is
\* one open returned and nobody has freed, the descriptor closed is the
\* handle's and the handle's memory is released, exactly once; on a null
\* handle it returns an error and closes and frees nothing.
C10_CloseReleases ==
    last.op = "close" =>
        IF last.arg = NULL
        THEN /\ last.ret = LGW_USB_ERROR
             /\ last.osClose = <<>>
             /\ last.freed = <<>>
        ELSE /\ Len(last.osClose) = 1
             /\ last.freed = <<last.arg>>
             /\ last.ub = {} =>
                    /\ last.ret # KILLED
                    /\ heap[last.arg].st = "freed"
                    /\ last.osClose = <<heap[last.arg].val>>
                    /\ heap[last.arg].val \notin openFds
                    /\ heap[last.arg].frees = 1

\* a close of a live handle whose close(2) failed, the handle freed
C10_Witness ==
    /\ last.op = "close" /\ last.arg # NULL /\ last.ub = {}
    /\ last.closeRet < 0
    /\ last.freed = <<last.arg>>
    /\ heap[last.arg].st = "freed"

\* C11 as stated: when close(2) fails inside lgw_usb_close, the call
\* still returns success to the caller.
C11_CloseFailureReportsSuccess ==
    (last.op = "close" /\ last.arg # NULL /\ last.ub = {}
                       /\ last.closeRet < 0)
        => last.ret = LGW_USB_SUCCESS

\* C11: lgw_usb_close on a handle that open returned and nobody has
\* freed returns the error code exactly when close(2) reported a failure
\* and success otherwise; the handle is freed in both cases.
C11_CloseFailureReportsError ==
    (last.op = "close" /\ last.arg # NULL /\ last.ub = {}) =>
        /\ last.closeRet < 0 => last.ret = LGW_USB_ERROR
        /\ last.closeRet >= 0 => last.ret = LGW_USB_SUCCESS
        /\ last.freed = <<last.arg>>

\* a close of a live handle whose descriptor was open and whose close(2)
\* failed: the error code returned, the descriptor gone
C11_Witness ==
    /\ last.op = "close" /\ last.arg # NULL /\ last.ub = {}
    /\ last.fd >= FIRST_FD /\ last.closeRet < 0
    /\ last.ret = LGW_USB_ERROR
    /\ last.fd \notin openFds

\* C12: a register operation called with a null handle, and lgw_usb_r,
\* lgw_usb_wb or lgw_usb_rb called with a null data pointer, returns
\* LGW_USB_ERROR, calls mcu_spi_access zero times and writes nothing to
\* the caller's output.
C12_NullArgsRejected ==
    \A i \in 1 .. Len(calls) :
        (calls[i].handle = "null" \/ calls[i].dataNull) =>
            /\ calls[i].ret = LGW_USB_ERROR
            /\ calls[i].relay = <<>>
            /\ \A k \in 1 .. Len(calls[i].out) : calls[i].out[k] = UNTOUCHED

\* a burst read on a live handle with a null data pointer, and a read
\* with a null handle into a caller's byte, both rejected
C12_Witness ==
    \E i, j \in 1 .. Len(calls) :
        /\ calls[i].op = "rb" /\ calls[i].handle = "live"
        /\ calls[i].dataNull /\ calls[i].size = 2
        /\ calls[i].ret = LGW_USB_ERROR
        /\ calls[j].op = "r" /\ calls[j].handle = "null"
        /\ ~calls[j].dataNull /\ calls[j].out = <<UNTOUCHED>>
        /\ calls[j].relay = <<>>

\* the positions of an external call in the latest open
CallsOf(name) == { i \in 1 .. Len(last.ext) : last.ext[i] = name }

\* C13: within lgw_usb_open the external calls occur in a fixed order and
\* each stage gates the next: mcu_ping is issued only after open(2) and
\* both configuration calls succeeded; mcu_gpio_write is issued only
\* after a successful ping whose version, first character ignored, equals
\* mcu_version_string; on a ping failure or a version mismatch open
\* returns an error having issued no GPIO write.
C13_StagesGate ==
    last.op = "open" =>
        /\ \E n \in 0 .. Len(OpenSequence) :
              \/ last.ext = SubSeq(OpenSequence, 1, n)
              \/ last.ext = SubSeq(OpenSequence, 1, n) \o <<"free">>
        /\ CallsOf("mcu_ping") # {} =>
              /\ last.env.openOk
              /\ last.env.get1 /\ last.env.set1
              /\ last.env.get2 /\ last.env.set2
              /\ \A i \in CallsOf("mcu_ping") :
                    \E o \in CallsOf("open"), c \in CallsOf("set_blocking_linux") :
                        o < c /\ c < i
        /\ (CallsOf("mcu_gpio_write") # {} \/ last.gpio # <<>>) =>
              /\ last.env.pingOk
              /\ Tail(last.env.version) = mcu_version_string
              /\ \A g \in CallsOf("mcu_gpio_write") :
                    \E i \in CallsOf("mcu_ping") : i < g
        /\ (last.ping > 0 /\
            (~last.env.pingOk \/ Tail(last.env.version) # mcu_version_string)) =>
              /\ last.ret # LGW_USB_SUCCESS
              /\ CallsOf("mcu_gpio_write") = {}
              /\ last.gpio = <<>>

\* an open whose ping answered a debug build of the expected version and
\* went on to the GPIO writes
C13_Witness ==
    /\ last.op = "open" /\ last.stage = "ready"
    /\ Head(last.env.version) # 82
    /\ last.ping = 1
    /\ CallsOf("mcu_gpio_write") # {}

\* the latest open reached its reset step
ReachedReset ==
    /\ last.op = "open"
    /\ last.stage \in {"reset", "ready"}

\* C14: the reset step of lgw_usb_open issues exactly two GPIO writes
\* through the relay, one asserting reset and then one releasing it, and
\* open returns the reset error when a GPIO write fails.
C14_TwoGpioWrites ==
    ReachedReset =>
        /\ Len(last.gpio) = 2
        /\ last.gpio[1].pin = 2 /\ last.gpio[1].level = 1
        /\ last.gpio[2].pin = 2 /\ last.gpio[2].level = 0
        /\ (\E k \in 1 .. Len(last.gpio) : last.gpio[k].ret # 0)
              => last.ret = LGW_USB_ERROR

\* C15: when the relay succeeds, lgw_usb_r stores in *data the byte at
\* index 5 of the 6-byte reply, and lgw_usb_rb with size N stores in
\* data[0..N) the reply bytes at offsets 5 to 5+N-1 in order and writes
\* nothing past data[N-1] (nothing at all when N = 0).
C15_ReadExtraction ==
    \A i \in Relayed :
        LET c == calls[i]
            reply == c.relay[1].reply
        IN  c.relay[1].ok =>
              /\ c.op = "r" =>
                    /\ Len(reply) = 6
                    /\ c.out = <<reply[6]>>
              /\ c.op = "rb" =>
                    /\ Len(reply) = 5 + c.size
                    /\ c.out = SubSeq(reply, 6, 5 + c.size) \o <<UNTOUCHED>>

\* C16: when the relay fails during lgw_usb_r or lgw_usb_rb, the call
\* returns the error and the caller's *data, resp. data[0..N), is left as
\* it was; a byte of the output is written only when the relay succeeded.
C16_FailureLeavesOutput ==
    \A i \in Relayed :
        LET c == calls[i]
        IN  c.op \in {"r", "rb"} =>
              /\ ~c.relay[1].ok =>
                    /\ c.ret = -1
                    /\ c.out = [k \in 1 .. Len(c.out) |-> UNTOUCHED]
              /\ c.out # [k \in 1 .. Len(c.out) |-> UNTOUCHED]
                    => c.relay[1].ok

\* a read on which the relay failed: the error returned, *data untouched
C16_Witness ==
    \E i \in Relayed :
        /\ calls[i].op = "r" /\ ~calls[i].relay[1].ok
        /\ calls[i].ret = -1
        /\ calls[i].out = <<UNTOUCHED>>

\* the attributes set_blocking_linux has no business with
OtherAttribs ==
    {"ospeed", "ispeed", "cibaud", "cflag", "iflag", "oflag", "lflag"}

\* C17: set_blocking_linux changes only VMIN and VTIME (1 and 1 when
\* blocking, 0 and 1 otherwise) and leaves every other attribute as it
\* was; after a successful lgw_usb_open the line has VMIN = 1 and
\* VTIME = 1 with the speed, 8N1 framing and raw-mode flags that
\* set_interface_attribs_linux set: output at B115200, the CIBAUD bits
\* as they were, and so the input at B115200 unless the line had an
\* input speed of its own in CIBAUD, which it keeps.
C17_BlockingOnlyVminVtime ==
    /\ last.op = "set_blocking_linux" =>
          /\ \A f \in OtherAttribs : tty[f] = last.env.tty[f]
          /\ last.ret = LGW_USB_SUCCESS =>
                /\ tty.vmin = (IF last.env.blocking THEN 1 ELSE 0)
                /\ tty.vtime = 1
          /\ last.ret # LGW_USB_SUCCESS =>
                /\ tty.vmin = last.env.tty.vmin
                /\ tty.vtime = last.env.tty.vtime
    /\ (last.op = "open" /\ last.ret = LGW_USB_SUCCESS) =>
          /\ tty.vmin = 1 /\ tty.vtime = 1
          /\ \A f \in OtherAttribs : tty[f] = AttribsOf(last.line, B115200)[f]
          /\ tty.ospeed = B115200
          /\ tty.cibaud = last.line.cibaud
          /\ tty.ispeed = (IF last.line.cibaud = B0 THEN B115200
                                                    ELSE last.line.cibaud)
          /\ tty.cflag \cap CSIZE = CS8
          /\ tty.cflag \cap (PARENB \cup CSTOPB) = {}
          /\ CLOCAL \cup CREAD \subseteq tty.cflag
          /\ tty.iflag \cap (IGNBRK \cup IXON \cup IXOFF \cup IXANY \cup ICRNL) = {}
          /\ tty.lflag = {}

\* a cooked 9600 baud line switched to the short-timeout mode: VMIN 1 -> 0,
\* VTIME 0 -> 1, the canonical-mode flags still set
C17_Witness ==
    /\ last.op = "set_blocking_linux" /\ last.ret = LGW_USB_SUCCESS
    /\ ~last.env.blocking
    /\ last.env.tty.vmin = 1 /\ last.env.tty.vtime = 0
    /\ tty.vmin = 0 /\ tty.vtime = 1
    /\ tty.ospeed = B9600 /\ ICANON \subseteq tty.lflag

\* C18: over any sequence of open and close calls, the pointer open left
\* in *com_target_ptr never refers to memory open has freed, no call
\* reads or frees released memory, and every handle is freed at most
\* once.
C18_NoUseAfterFree ==
    /\ HandleClass(com_target) # "dangling"
    /\ last.ub = {}
    /\ \A i \in 1 .. Len(calls) : calls[i].ub = {}
    /\ \A h \in Handles : heap[h].frees <= 1

====
